---- MODULE Spec2Model ----
(***************************************************************************)
(* A model of src/rag_utils.py: the five utility functions ask_rag,        *)
(* score_question, compute_metrics, parse_score and                        *)
(* evaluate_answer_with_llm.                                               *)
(*                                                                         *)
(* Python values are modelled as follows.                                  *)
(*   - a float is an exact rational [kind |-> "num", num, den] in lowest   *)
(*     terms with den > 0 (rounding of binary floating point is not        *)
(*     modelled);                                                          *)
(*   - None is PyNone; a key that a dict does not hold maps to Absent;     *)
(*   - a str is [kind |-> "str", chars |-> <<c1, ..., cn>>], a sequence of *)
(*     one-character strings;                                              *)
(*   - a raised exception is named by its class; "None" means no           *)
(*     exception is in flight.                                             *)
(* The score list is a list of distinct dict objects (no two positions of  *)
(* the list alias the same dict).                                          *)
(***************************************************************************)
EXTENDS Integers, Sequences, FiniteSets, TLC

VARIABLES
    \* score_question / compute_metrics
    scores_list,   \* the caller-owned list of score records
    pre_list,      \* the list as it was when the latest call was made
    call,          \* the latest call on the score list: its name, arguments and outcome
    returned,      \* what the latest call on the score list returned
    args_ok,       \* every score_question call so far passed None or a number in [0,1]
    \* parse_score
    response_text, \* the argument of the parse_score call
    parse_out,     \* Pending, or the outcome of parse_score(response_text)
    \* evaluate_answer_with_llm
    j_pc,          \* position in evaluate_answer_with_llm
    j_context,     \* its context argument
    j_invoked,     \* the judge prompts llm.invoke was called with, in order
    j_rel_resp,    \* what llm.invoke returned for the relevancy prompt
    j_faith_resp,  \* what llm.invoke returned for the faithfulness prompt
    j_rel_score,   \* local rel_score
    j_faith_score, \* local faith_score
    j_exc,         \* the exception raised inside the try block, or "None"
    j_result,      \* Pending, or the outcome of the call
    \* ask_rag
    r_pc,          \* position in ask_rag
    r_max,         \* max_context_chars
    r_docs,        \* docs, as retriever.invoke returned them
    r_context,     \* the context handed to qa_prompt.format
    r_result,      \* Pending, or the outcome of the call
    \* shared
    stdout         \* the lines the latest call printed

vars == <<scores_list, pre_list, call, returned, args_ok, response_text, parse_out,
          j_pc, j_context, j_invoked, j_rel_resp, j_faith_resp, j_rel_score,
          j_faith_score, j_exc, j_result, r_pc, r_max, r_docs, r_context,
          r_result, stdout>>

scoreVars == <<scores_list, pre_list, call, returned, args_ok>>
parseVars == <<response_text, parse_out>>
judgeVars == <<j_pc, j_context, j_invoked, j_rel_resp, j_faith_resp, j_rel_score,
               j_faith_score, j_exc, j_result>>
ragVars == <<r_pc, r_max, r_docs, r_context, r_result>>

-----------------------------------------------------------------------------
(* Bounds of the model *)

\* the longest score list
MaxLen == 2
\* the longest enumerated response text handed to parse_score
MaxText == 4
\* the most documents the retriever returns
MaxDocs == 2
\* the longest page_content of a document
MaxDocLen == 2
\* the largest enumerated max_context_chars (the default is included besides)
MaxChars == 3

\* the default of max_context_chars
DefaultMaxContextChars == 1500

-----------------------------------------------------------------------------
(* Python values *)

PyNone == [kind |-> "None"]
Absent == [kind |-> "absent"]
PyObject == [kind |-> "object"]
Str(cs) == [kind |-> "str", chars |-> cs]

\* how a call stands: not made, under way, returned a value, raised an exception
Idle == [status |-> "idle"]
Pending == [status |-> "pending"]
Returned(v) == [status |-> "returned", value |-> v]
Raised(e) == [status |-> "raised", exc |-> e]

RECURSIVE GCD(_, _)
GCD(a, b) == IF b = 0 THEN a ELSE GCD(b, a % b)

Abs(n) == IF n < 0 THEN -n ELSE n

\* the number n/d (d > 0), in lowest terms
Num(n, d) ==
    LET g == GCD(Abs(n), d)
    IN  [kind |-> "num", num |-> n \div g, den |-> d \div g]

IsNum(v) == v.kind = "num"

NumAdd(a, b) == Num(a.num * b.den + b.num * a.den, a.den * b.den)
NumDivInt(a, k) == Num(a.num, a.den * k)
NumLe(a, b) == a.num * b.den <= b.num * a.den
NumMin(a, b) == IF NumLe(a, b) THEN a ELSE b
NumMax(a, b) == IF NumLe(b, a) THEN a ELSE b

Zero == Num(0, 1)
One == Num(1, 1)
Ten == Num(10, 1)

-----------------------------------------------------------------------------
(* Exceptions *)

\* classes derived from Exception
ExceptionClasses == {"TypeError", "ValueError", "RuntimeError"}
\* classes derived from BaseException only: KeyboardInterrupt, SystemExit, ...
BaseOnlyClasses == {"KeyboardInterrupt"}
Raisable == ExceptionClasses \cup BaseOnlyClasses

\* what a collaborator (retriever, llm, __format__) does when called: it
\* returns, or raises any exception
Outcomes == {"None"} \cup Raisable

\* a bare "except:" clause catches whatever is raised
BareExceptOnlyValueError(e) == e = "ValueError"
BareExceptCatches(e) == TRUE

\* an "except Exception" clause catches the classes derived from Exception
ExceptRuntimeErrorOnly(e) == e = "RuntimeError"
ExceptExceptionCatches(e) == e \in ExceptionClasses

-----------------------------------------------------------------------------
(* score_question and compute_metrics *)

ScoreKeys == {"vanilla_faith", "vanilla_relev", "rag_faith", "rag_relev"}
\* a score record may hold other keys; "question" stands for them
Keys == ScoreKeys \cup {"question"}

\* a value within [0.0, 1.0]
InUnitRange(v) == IsNum(v) /\ NumLe(Zero, v) /\ NumLe(v, One)

\* key k is unset in record s
Unset(s, k) == s[k] = Absent \/ s[k] = PyNone

\* the records the caller creates the list with: score fields absent, None
\* or within [0.0, 1.0]
InitRecords ==
    { [k \in Keys |-> IF k = "question" THEN Str(<<"q">>) ELSE Absent],
      [k \in Keys |-> IF k = "question" THEN Absent ELSE PyNone],
      [k \in Keys |-> IF k = "question" THEN Str(<<"q">>)
                      ELSE IF k = "rag_relev" THEN Num(1, 5) ELSE One] }

\* the (vf, vr, rf, rr) a caller passes: numbers within [0.0, 1.0], None,
\* and numbers outside the range (a raw 0-10 rating, a negative number)
ScoreArgs ==
    { <<Num(7, 10), Num(1, 2), One, Zero>>,
      <<Num(1, 2), Num(3, 10), Num(1, 5), Num(9, 10)>>,
      <<PyNone, Num(1, 2), One, One>>,
      <<Num(7, 1), Num(1, 2), Num(-1, 10), Zero>> }

\* the index argument: negative, 0, valid, and past the end
IndexChoices == -1 .. (MaxLen + 1)

\* 0 <= idx < len(scores_list)
InRangeUpperOnly(idx, n) == idx < n
InRange(idx, n) == 0 <= idx /\ idx < n

\* The four subscript assignments on the dict s.
UpdateRecordFresh(s, vf, vr, rf, rr) ==
    [k \in Keys |-> CASE k = "vanilla_faith" -> vf
                      [] k = "vanilla_relev" -> vr
                      [] k = "rag_faith" -> rf
                      [] k = "rag_relev" -> rr
                      [] OTHER -> Absent]
TimesTen(v) == IF IsNum(v) THEN Num(v.num * 10, v.den) ELSE v
UpdateRecordRawRating(s, vf, vr, rf, rr) ==
    [s EXCEPT !["vanilla_faith"] = TimesTen(vf), !["vanilla_relev"] = TimesTen(vr),
              !["rag_faith"] = TimesTen(rf), !["rag_relev"] = TimesTen(rr)]
UpdateRecord(s, vf, vr, rf, rr) ==
    [s EXCEPT !["vanilla_faith"] = vf, !["vanilla_relev"] = vr,
              !["rag_faith"] = rf, !["rag_relev"] = rr]

\* scores_list[idx] of a list of n items: the position (1-based here) Python's
\* subscript reaches, a negative idx counting from the end; 0 when it raises
\* IndexError
PyPos(idx, n) ==
    LET p == IF idx < 0 THEN idx + n ELSE idx
    IN  IF 0 <= p /\ p < n THEN p + 1 ELSE 0

OutOfRangeMsg(index) == [text |-> "Error: Index out of range.", index |-> index]

\* score_question(scores_list, index, vf, vr, rf, rr): the list afterwards,
\* the lines printed and the exception raised
score_question(sl, index, vf, vr, rf, rr) ==
    LET idx == index - 1
        pos == PyPos(idx, Len(sl))
    IN  IF InRange(idx, Len(sl))
        THEN IF pos = 0
             THEN [scores_list |-> sl, printed |-> <<>>, raised |-> "IndexError"]
             ELSE [scores_list |->
                       [sl EXCEPT ![pos] = UpdateRecord(sl[pos], vf, vr, rf, rr)],
                   printed |-> <<>>, raised |-> "None"]
        ELSE [scores_list |-> sl, printed |-> <<OutOfRangeMsg(index)>>,
              raised |-> "None"]

\* all(k in s and s[k] is not None for k in [...])
AnyScorePresent(s) == \E k \in ScoreKeys : s[k] # Absent /\ s[k] # PyNone
AllScoresPresent(s) == \A k \in ScoreKeys : s[k] # Absent /\ s[k] # PyNone

\* if valid_entries > 0
ShouldDivideAlways(valid_entries) == TRUE
ShouldDivide(valid_entries) == valid_entries > 0

MetricKeys == {"vanilla_faith_avg", "vanilla_relev_avg", "rag_faith_avg", "rag_relev_avg"}
ScoreKeyOf(m) ==
    CASE m = "vanilla_faith_avg" -> "vanilla_faith"
      [] m = "vanilla_relev_avg" -> "vanilla_relev"
      [] m = "rag_faith_avg" -> "rag_faith"
      [] m = "rag_relev_avg" -> "rag_relev"

\* metrics as first assigned, with valid_entries and the exception raised
MetricsInit ==
    [sums |-> [m \in MetricKeys |-> Zero], valid_entries |-> 0, raised |-> "None"]

\* metrics[m] += s[k]: a missing key raises KeyError, None raises TypeError
AddScores(acc, s) ==
    IF \E k \in ScoreKeys : s[k] = Absent
    THEN [acc EXCEPT !.raised = "KeyError"]
    ELSE IF \E k \in ScoreKeys : ~IsNum(s[k])
    THEN [acc EXCEPT !.raised = "TypeError"]
    ELSE [acc EXCEPT !.sums = [m \in MetricKeys |-> NumAdd(acc.sums[m], s[ScoreKeyOf(m)])],
                     !.valid_entries = acc.valid_entries + 1]

\* the loop "for s in scores_list", from position i on
RECURSIVE Accumulate(_, _, _)
Accumulate(sl, i, acc) ==
    IF i > Len(sl) \/ acc.raised # "None" THEN acc
    ELSE Accumulate(sl, i + 1,
                    IF AllScoresPresent(sl[i]) THEN AddScores(acc, sl[i]) ELSE acc)

\* compute_metrics(scores_list): the dict returned (when nothing is raised),
\* the number of divisions performed and the exception raised
compute_metrics(sl) ==
    LET acc == Accumulate(sl, 1, MetricsInit)
    IN  IF acc.raised # "None"
        THEN [raised |-> acc.raised, divisions |-> 0, metrics |-> PyNone]
        ELSE IF ShouldDivide(acc.valid_entries)
        THEN IF acc.valid_entries = 0
             THEN [raised |-> "ZeroDivisionError", divisions |-> 0, metrics |-> PyNone]
             ELSE [raised |-> "None", divisions |-> 4,
                   metrics |-> [avg |-> [m \in MetricKeys |->
                                            NumDivInt(acc.sums[m], acc.valid_entries)],
                                count |-> acc.valid_entries]]
        ELSE [raised |-> "None", divisions |-> 0,
              metrics |-> [avg |-> acc.sums, count |-> acc.valid_entries]]

NoCall == [op |-> "none"]

\* a caller calls score_question(scores_list, index, vf, vr, rf, rr)
ScoreQuestion ==
    \E index \in IndexChoices, a \in ScoreArgs :
        LET r == score_question(scores_list, index, a[1], a[2], a[3], a[4])
        IN  /\ scores_list' = r.scores_list
            /\ pre_list' = scores_list
            /\ stdout' = r.printed
            /\ call' = [op |-> "score_question", index |-> index, vf |-> a[1],
                        vr |-> a[2], rf |-> a[3], rr |-> a[4], raised |-> r.raised]
            /\ args_ok' = (args_ok /\ \A i \in 1..4 : a[i] = PyNone \/ InUnitRange(a[i]))
            /\ returned' = PyNone
            /\ UNCHANGED <<parseVars, judgeVars, ragVars>>

\* a caller calls compute_metrics(scores_list)
ComputeMetrics ==
    LET r == compute_metrics(scores_list)
    IN  /\ returned' = r.metrics
        /\ call' = [op |-> "compute_metrics", raised |-> r.raised,
                    divisions |-> r.divisions]
        /\ pre_list' = scores_list
        /\ stdout' = <<>>
        /\ UNCHANGED <<scores_list, args_ok, parseVars, judgeVars, ragVars>>

RECURSIVE SeqsUpTo(_, _)
\* the sequences over S of length at most n
SeqsUpTo(S, n) ==
    IF n = 0 THEN {<<>>}
    ELSE LET shorter == SeqsUpTo(S, n - 1)
         IN  shorter \cup {Append(s, x) : s \in shorter, x \in S}

\* the variables of the functions that are not being called
ParseIdle == response_text = PyNone /\ parse_out = Idle
JudgeIdle ==
    /\ j_pc = "idle" /\ j_context = PyNone /\ j_invoked = <<>>
    /\ j_rel_resp = PyNone /\ j_faith_resp = PyNone
    /\ j_rel_score = PyNone /\ j_faith_score = PyNone
    /\ j_exc = "None" /\ j_result = Idle
RagIdle ==
    /\ r_pc = "idle" /\ r_max = 0 /\ r_docs = <<>> /\ r_context = PyNone
    /\ r_result = Idle
ScoresIdle ==
    /\ scores_list = <<>> /\ pre_list = <<>> /\ call = NoCall
    /\ returned = PyNone /\ args_ok = TRUE

ScoresInit ==
    /\ scores_list \in SeqsUpTo(InitRecords, MaxLen)
    /\ pre_list = scores_list
    /\ call = NoCall
    /\ returned = PyNone
    /\ args_ok = TRUE
    /\ stdout = <<>>
    /\ ParseIdle /\ JudgeIdle /\ RagIdle

ScoresNext == ScoreQuestion \/ ComputeMetrics

\* the score list under any sequence of score_question and compute_metrics calls
SpecScores == ScoresInit /\ [][ScoresNext]_vars

-----------------------------------------------------------------------------
(* Properties of score_question and compute_metrics *)

\* the latest call was score_question with an index whose 0-based position
\* lies within the list it was given
ValidIndexCall ==
    /\ call.op = "score_question"
    /\ 1 <= call.index /\ call.index <= Len(pre_list)

\* the latest call was score_question with an index whose 0-based position
\* lies outside the list it was given
InvalidIndexCall ==
    /\ call.op = "score_question"
    /\ ~(0 <= call.index - 1 /\ call.index - 1 < Len(pre_list))

\* C1: score_question with 1 <= index <= len(scores_list) sets exactly the
\* four score fields of the record at position index-1 to vf, vr, rf, rr and
\* leaves every other field of that record, every other record and the length
\* of the list unchanged.
C1_ScoreQuestionFrame ==
    ValidIndexCall =>
        /\ Len(scores_list) = Len(pre_list)
        /\ scores_list[call.index]["vanilla_faith"] = call.vf
        /\ scores_list[call.index]["vanilla_relev"] = call.vr
        /\ scores_list[call.index]["rag_faith"] = call.rf
        /\ scores_list[call.index]["rag_relev"] = call.rr
        /\ \A k \in Keys \ ScoreKeys :
               scores_list[call.index][k] = pre_list[call.index][k]
        /\ \A i \in 1..Len(pre_list) :
               i # call.index => scores_list[i] = pre_list[i]

\* a valid call on a list of two records that changed the second one, which
\* holds another field besides the scores
C1_Witness ==
    /\ ValidIndexCall
    /\ Len(pre_list) = 2 /\ call.index = 2
    /\ scores_list[2] # pre_list[2]
    /\ scores_list[2]["question"] # Absent
    /\ scores_list[1] # scores_list[2]

\* C2: score_question with an index whose 0-based position is outside
\* [0, len(scores_list)) leaves the whole list unchanged, prints a diagnostic
\* and returns without raising.
C2_OutOfRangeNoMutation ==
    InvalidIndexCall =>
        /\ scores_list = pre_list
        /\ stdout = <<OutOfRangeMsg(call.index)>>
        /\ call.raised = "None"

\* index 0 on a list of two different records
C2_Witness ==
    /\ InvalidIndexCall
    /\ call.index = 0
    /\ Len(pre_list) = 2
    /\ pre_list[1] # pre_list[2]
    /\ stdout # <<>>

\* the positions of the records in which all four fields are present and
\* non-null
Qualifying(sl) == {i \in 1..Len(sl) : \A k \in ScoreKeys : ~Unset(sl[i], k)}

RECURSIVE SumOver(_, _, _)
\* the sum of field k over the records at the positions I
SumOver(sl, I, k) ==
    IF I = {} THEN Zero
    ELSE LET i == CHOOSE j \in I : TRUE
         IN  NumAdd(sl[i][k], SumOver(sl, I \ {i}, k))

\* C3: compute_metrics returns count = the number of records with all four
\* fields present and non-null, and when count > 0 each average is the sum of
\* its field over exactly those records divided by count.
C3_MetricsMean ==
    call.op = "compute_metrics" =>
        /\ call.raised = "None"
        /\ returned.count = Cardinality(Qualifying(pre_list))
        /\ returned.count > 0 =>
               \A m \in MetricKeys :
                   returned.avg[m] =
                       NumDivInt(SumOver(pre_list, Qualifying(pre_list), ScoreKeyOf(m)),
                                 returned.count)

\* two records, one of them qualifying and one partially filled (a None
\* beside numbers), and an average that is not zero
C3_Witness ==
    /\ call.op = "compute_metrics"
    /\ Len(pre_list) = 2
    /\ returned.count = 1
    /\ \E i \in 1..2 : /\ i \notin Qualifying(pre_list)
                        /\ \E k \in ScoreKeys : IsNum(pre_list[i][k])
    /\ returned.avg["vanilla_faith_avg"] # Zero

\* C4: on an empty list, and on a list with no record holding all four
\* fields, compute_metrics returns four averages 0.0 and count 0, performs no
\* division and raises nothing.
C4_NoQualifyingZero ==
    (call.op = "compute_metrics" /\ Qualifying(pre_list) = {}) =>
        /\ call.raised = "None"
        /\ call.divisions = 0
        /\ returned.count = 0
        /\ \A m \in MetricKeys : returned.avg[m] = Zero

\* a list of partially filled records only
C4_Witness ==
    /\ call.op = "compute_metrics"
    /\ Len(pre_list) = 2
    /\ Qualifying(pre_list) = {}
    /\ \E k \in ScoreKeys : IsNum(pre_list[1][k])
    /\ returned.count = 0

\* every score field of every record is absent, None or within [0.0, 1.0]
ScoresInUnitRange ==
    \A i \in 1..Len(scores_list) : \A k \in ScoreKeys :
        Unset(scores_list[i], k) \/ InUnitRange(scores_list[i][k])

\* C10 as stated: after any sequence of score_question calls on a list that
\* starts with every score field absent or within [0.0, 1.0], every score
\* field is absent/unset or within [0.0, 1.0].
C10_Original == ScoresInUnitRange

\* C10 amended: the same, after any sequence of score_question calls whose
\* four score arguments are each None or a number within [0.0, 1.0].
C10_RangePreserved == args_ok => ScoresInUnitRange

\* a call with arguments in range has written a record
C10_Witness ==
    /\ args_ok
    /\ ValidIndexCall
    /\ scores_list # pre_list
    /\ IsNum(call.vf)

-----------------------------------------------------------------------------
(* parse_score *)

Digits == {"0", "1", "2", "3", "4", "5", "6", "7", "8", "9"}
IsDigit(c) == c \in Digits
DigitVal(c) ==
    CASE c = "0" -> 0 [] c = "1" -> 1 [] c = "2" -> 2 [] c = "3" -> 3
      [] c = "4" -> 4 [] c = "5" -> 5 [] c = "6" -> 6 [] c = "7" -> 7
      [] c = "8" -> 8 [] c = "9" -> 9

RECURSIVE DigitsEnd(_, _)
\* \d+ from position i, which holds a digit: the last position of the longest
\* run of digits (the quantifier is greedy)
DigitsEnd(cs, i) ==
    IF i < Len(cs) /\ IsDigit(cs[i + 1]) THEN DigitsEnd(cs, i + 1) ELSE i

\* \d+(\.\d+)? tried at position i: the last position of the match, 0 when
\* there is none. The optional group is taken when it can be.
MatchEnd(cs, i) ==
    IF ~IsDigit(cs[i]) THEN 0
    ELSE LET e == DigitsEnd(cs, i)
         IN  IF e + 2 <= Len(cs) /\ cs[e + 1] = "." /\ IsDigit(cs[e + 2])
             THEN DigitsEnd(cs, e + 2)
             ELSE e

NoMatch == [start |-> 0, end |-> 0]

RECURSIVE SearchFrom(_, _)
\* re.search tries the pattern at each position in turn, from the left
SearchFrom(cs, i) ==
    IF i > Len(cs) THEN NoMatch
    ELSE IF MatchEnd(cs, i) # 0 THEN [start |-> i, end |-> MatchEnd(cs, i)]
    ELSE SearchFrom(cs, i + 1)

\* re.search(r'\d+(\.\d+)?', response_text) on a str
re_search(cs) == SearchFrom(cs, 1)

\* match.group()
group(cs, m) == SubSeq(cs, m.start, m.end)

RECURSIVE FloatFrom(_, _, _, _)
\* float() of digits with an optional ".digits": reads the characters from
\* position i on, n the digits read so far as an integer and d the power of
\* ten the digits after the point have scaled it by (0 before the point)
FloatFrom(cs, i, n, d) ==
    IF i > Len(cs) THEN Num(n, IF d = 0 THEN 1 ELSE d)
    ELSE IF cs[i] = "." THEN FloatFrom(cs, i + 1, n, 1)
    ELSE FloatFrom(cs, i + 1, n * 10 + DigitVal(cs[i]), d * 10)

float(cs) == FloatFrom(cs, 1, 0, 0)

\* max(0, min(10, val))
ClampLowerOnly(val) == NumMax(Zero, val)
Clamp(val) == NumMax(Zero, NumMin(Ten, val))

\* the body of the try block of parse_score; re.search raises TypeError on an
\* argument that is not a str
parse_score_try(text) ==
    IF text.kind # "str" THEN Raised("TypeError")
    ELSE LET m == re_search(text.chars)
         IN  IF m # NoMatch
             THEN Returned(NumDivInt(Clamp(float(group(text.chars, m))), 10))
             ELSE Returned(Zero)

\* parse_score(response_text)
parse_score(text) ==
    LET r == parse_score_try(text)
    IN  IF r.status = "raised" /\ BareExceptCatches(r.exc) THEN Returned(Zero) ELSE r

\* the characters of the enumerated response texts
Alphabet == {"0", "1", "7", ".", "-", "x"}

\* the response texts named in the documentation of the parser
ExampleTexts ==
    { <<"1", "5">>, <<"-", "3">>, <<"S", "c", "o", "r", "e", ":", " ", "0">>,
      <<"1", "0", " ", "o", "u", "t", " ", "o", "f", " ", "1", "0">>,
      <<"n", "o", " ", "n", "u", "m", "b", "e", "r", " ", "h", "e", "r", "e">> }

\* what parse_score is called with: a str, None, or another object (a chat
\* model's message object)
ParseInputs ==
    {Str(cs) : cs \in SeqsUpTo(Alphabet, MaxText) \cup ExampleTexts}
        \cup {PyNone, PyObject}

\* a caller's parse_score(response_text) runs
ParseScore ==
    /\ parse_out = Pending
    /\ parse_out' = parse_score(response_text)
    /\ UNCHANGED <<response_text, scoreVars, judgeVars, ragVars, stdout>>

ParseInit ==
    /\ response_text \in ParseInputs
    /\ parse_out = Pending
    /\ stdout = <<>>
    /\ ScoresIdle /\ JudgeIdle /\ RagIdle

ParseNext == ParseScore

\* one call of parse_score on any input
SpecParse == ParseInit /\ [][ParseNext]_vars

-----------------------------------------------------------------------------
(* Properties of parse_score *)

\* cs[i..j] is digits, or digits "." digits
IsNumberText(cs, i, j) ==
    \/ \A p \in i..j : IsDigit(cs[p])
    \/ \E k \in (i + 1)..(j - 1) :
          /\ cs[k] = "."
          /\ \A p \in (i..j) \ {k} : IsDigit(cs[p])

\* the substrings of cs that match an unsigned integer or decimal number
NumberTexts(cs) ==
    {m \in (1..Len(cs)) \X (1..Len(cs)) : m[1] <= m[2] /\ IsNumberText(cs, m[1], m[2])}

\* the leftmost of them, and the longest of those that start there
FirstNumberText(cs) ==
    CHOOSE m \in NumberTexts(cs) :
        \A o \in NumberTexts(cs) : m[1] < o[1] \/ (m[1] = o[1] /\ m[2] >= o[2])

RECURSIVE Pow10(_)
Pow10(k) == IF k = 0 THEN 1 ELSE 10 * Pow10(k - 1)

RECURSIVE PlaceSum(_, _, _, _)
\* the sum of digit * 10^(last - p) over the digits at positions i..j of cs,
\* its point left out of the count of places
PlaceSum(cs, i, j, place) ==
    IF j < i THEN 0
    ELSE IF cs[j] = "." THEN PlaceSum(cs, i, j - 1, place)
    ELSE DigitVal(cs[j]) * Pow10(place) + PlaceSum(cs, i, j - 1, place + 1)

\* the number cs[i..j] denotes
DecimalValue(cs, i, j) ==
    LET dots == {p \in i..j : cs[p] = "."}
        frac == IF dots = {} THEN 0 ELSE j - (CHOOSE p \in dots : TRUE)
    IN  Num(PlaceSum(cs, i, j, 0), Pow10(frac))

\* min(10, v) / 10 for the first number in cs, 0.0 when there is none
ExpectedScore(cs) ==
    IF NumberTexts(cs) = {} THEN Zero
    ELSE LET m == FirstNumberText(cs)
         IN  NumDivInt(NumMin(Ten, DecimalValue(cs, m[1], m[2])), 10)

ParsedText == parse_out # Pending /\ response_text.kind = "str"

\* C5: on every response text parse_score returns min(10, v) / 10, v the value
\* of the leftmost substring matching an unsigned integer or decimal number,
\* and 0.0 when there is none; the result is within [0.0, 1.0]; "7" gives 0.7,
\* "15" gives 1.0, "-3" gives 0.3 and "10 out of 10" gives 1.0.
C5_ParseScoreValue ==
    ParsedText =>
        /\ parse_out = Returned(ExpectedScore(response_text.chars))
        /\ InUnitRange(parse_out.value)
        /\ response_text.chars = <<"7">> => parse_out.value = Num(7, 10)
        /\ response_text.chars = <<"1", "5">> => parse_out.value = One
        /\ response_text.chars = <<"-", "3">> => parse_out.value = Num(3, 10)
        /\ response_text.chars = <<"1", "0", " ", "o", "u", "t", " ", "o", "f", " ", "1", "0">>
               => parse_out.value = One

\* a text whose first number follows a sign and has a fractional part
C5_Witness ==
    /\ ParsedText
    /\ response_text.chars = <<"-", "7", ".", "1">>
    /\ parse_out = Returned(Num(71, 100))

\* C6: parse_score never raises; on an input that is not text (None, a model
\* response object) the exception is caught and 0.0 is returned.
C6_ParseScoreNeverRaises ==
    parse_out # Pending =>
        /\ parse_out.status = "returned"
        /\ response_text.kind # "str" => parse_out = Returned(Zero)

\* parse_score(None) has returned 0.0
C6_Witness ==
    /\ response_text = PyNone
    /\ parse_out = Returned(Zero)

-----------------------------------------------------------------------------
(* evaluate_answer_with_llm *)

\* the context argument: not supplied (None), empty, not empty
JudgeContexts == {PyNone, Str(<<>>), Str(<<"c">>)}

\* what llm.invoke returns: a str, or a message object that is not a str
LLMResponses ==
    {Str(<<"7">>), Str(<<"1", "5">>), Str(<<"3", ".", "5">>), Str(<<"n", "o">>), PyObject}

\* "if context:": None and the empty str are false
ContextIsNotNone(context) == context # PyNone
ContextSupplied(context) ==
    context # PyNone /\ ~(context.kind = "str" /\ context.chars = <<>>)

\* print(f"Error during LLM evaluation: {e}")
EvaluationErrorMsg(e) == [text |-> "Error during LLM evaluation: ", exc |-> e]

\* rel_prompt = relevancy_template.format(...); rel_resp = llm.invoke(rel_prompt);
\* rel_score = parse_score(rel_resp); then the test of context, whose else
\* branch sets faith_score = 0.0 and returns. The model raises or returns; the
\* formatting of an argument may raise before the model is reached.
JudgeRelevancy ==
    /\ j_pc = "relevancy"
    /\ \/ \E e \in Raisable :
             /\ j_invoked' = Append(j_invoked, "relevancy")
             /\ j_exc' = e
             /\ j_pc' = "except"
             /\ UNCHANGED <<j_rel_resp, j_rel_score, j_faith_score, j_result>>
       \/ \E resp \in LLMResponses :
             LET p == parse_score(resp)
             IN  /\ j_invoked' = Append(j_invoked, "relevancy")
                 /\ j_rel_resp' = resp
                 /\ IF p.status = "raised"
                    THEN /\ j_exc' = p.exc
                         /\ j_pc' = "except"
                         /\ UNCHANGED <<j_rel_score, j_faith_score, j_result>>
                    ELSE /\ j_rel_score' = p.value
                         /\ UNCHANGED j_exc
                         /\ IF ContextSupplied(j_context)
                            THEN /\ j_pc' = "faithfulness"
                                 /\ UNCHANGED <<j_faith_score, j_result>>
                            ELSE /\ j_faith_score' = Zero
                                 /\ j_result' = Returned(<<Zero, p.value>>)
                                 /\ j_pc' = "done"
       \/ \E e \in Raisable :
             /\ j_exc' = e
             /\ j_pc' = "except"
             /\ UNCHANGED <<j_invoked, j_rel_resp, j_rel_score, j_faith_score, j_result>>
    /\ UNCHANGED <<j_context, j_faith_resp, scoreVars, parseVars, ragVars, stdout>>

\* faith_prompt = faithfulness_template.format(...); faith_resp =
\* llm.invoke(faith_prompt); faith_score = parse_score(faith_resp);
\* return faith_score, rel_score
JudgeFaithfulness ==
    /\ j_pc = "faithfulness"
    /\ \/ \E e \in Raisable :
             /\ j_invoked' = Append(j_invoked, "faithfulness")
             /\ j_exc' = e
             /\ j_pc' = "except"
             /\ UNCHANGED <<j_faith_resp, j_faith_score, j_result>>
       \/ \E resp \in LLMResponses :
             LET p == parse_score(resp)
             IN  /\ j_invoked' = Append(j_invoked, "faithfulness")
                 /\ j_faith_resp' = resp
                 /\ IF p.status = "raised"
                    THEN /\ j_exc' = p.exc
                         /\ j_pc' = "except"
                         /\ UNCHANGED <<j_faith_score, j_result>>
                    ELSE /\ j_faith_score' = p.value
                         /\ j_result' = Returned(<<p.value, j_rel_score>>)
                         /\ j_pc' = "done"
                         /\ UNCHANGED j_exc
       \/ \E e \in Raisable :
             /\ j_exc' = e
             /\ j_pc' = "except"
             /\ UNCHANGED <<j_invoked, j_faith_resp, j_faith_score, j_result>>
    /\ UNCHANGED <<j_context, j_rel_resp, j_rel_score, scoreVars, parseVars,
                   ragVars, stdout>>

\* an exception left the try block: "except Exception as e" prints and returns
\* 0.0, 0.0; an exception the clause does not catch leaves the function
JudgeExcept ==
    /\ j_pc = "except"
    /\ IF ExceptExceptionCatches(j_exc)
       THEN /\ stdout' = <<EvaluationErrorMsg(j_exc)>>
            /\ j_result' = Returned(<<Zero, Zero>>)
       ELSE /\ j_result' = Raised(j_exc)
            /\ UNCHANGED stdout
    /\ j_pc' = "done"
    /\ UNCHANGED <<j_context, j_invoked, j_rel_resp, j_faith_resp, j_rel_score,
                   j_faith_score, j_exc, scoreVars, parseVars, ragVars>>

JudgeInit ==
    /\ j_pc = "relevancy"
    /\ j_context \in JudgeContexts
    /\ j_invoked = <<>>
    /\ j_rel_resp = PyNone /\ j_faith_resp = PyNone
    /\ j_rel_score = PyNone /\ j_faith_score = PyNone
    /\ j_exc = "None"
    /\ j_result = Pending
    /\ stdout = <<>>
    /\ ScoresIdle /\ ParseIdle /\ RagIdle

JudgeNext == JudgeRelevancy \/ JudgeFaithfulness \/ JudgeExcept

\* one call of evaluate_answer_with_llm, with any context and any behaviour of
\* the model
SpecJudge == JudgeInit /\ [][JudgeNext]_vars

-----------------------------------------------------------------------------
(* Properties of evaluate_answer_with_llm *)

\* a context was supplied and is not empty
ContextGiven == j_context # PyNone /\ j_context.chars # <<>>

\* the call is over: it returned or an exception left it
JudgeDone == j_pc = "done"

\* the model was invoked as the claim C7 says, and the result is what it says
JudgedAsStated ==
    /\ ~ContextGiven =>
          /\ j_invoked = <<"relevancy">>
          /\ j_result = Returned(<<Zero, parse_score(j_rel_resp).value>>)
    /\ ContextGiven =>
          /\ j_invoked = <<"relevancy", "faithfulness">>
          /\ j_result = Returned(<<parse_score(j_faith_resp).value,
                                   parse_score(j_rel_resp).value>>)

FailedToZero ==
    /\ j_result = Returned(<<Zero, Zero>>)
    /\ stdout = <<EvaluationErrorMsg(j_exc)>>

-----------------------------------------------------------------------------
(* ask_rag *)

\* the characters of the documents' texts
DocAlphabet == {"a", "b"}

\* a document: an object with a page_content
Doc(cs) == [page_content |-> Str(cs)]

\* what retriever.invoke returns: an ordered list of documents
DocLists == SeqsUpTo({Doc(cs) : cs \in SeqsUpTo(DocAlphabet, MaxDocLen)}, MaxDocs)

\* the max_context_chars argument: a character count, the default among them
MaxContextChoices == (0..MaxChars) \cup {DefaultMaxContextChars}

\* what llm.invoke returns for the answering prompt
Answers == {Str(<<"a", "n", "s">>), PyObject}

RECURSIVE JoinFrom(_, _, _)
\* "\n\n".join(d.page_content for d in docs), the documents from position i
\* on appended to acc
JoinFrom(docs, i, acc) ==
    IF i > Len(docs) THEN acc
    ELSE JoinFrom(docs, i + 1,
                  (IF i = 1 THEN acc ELSE acc \o <<"\n", "\n">>)
                      \o docs[i].page_content.chars)

Join(docs) == JoinFrom(docs, 1, <<>>)

\* context[:n]: the first n characters, all of them when there are fewer; a
\* negative n counts from the end
PySliceToInclusive(cs, n) ==
    SubSeq(cs, 1, IF n + 1 < Len(cs) THEN n + 1 ELSE Len(cs))
PySliceTo(cs, n) ==
    IF n >= 0
    THEN SubSeq(cs, 1, IF n < Len(cs) THEN n ELSE Len(cs))
    ELSE SubSeq(cs, 1, IF Len(cs) + n > 0 THEN Len(cs) + n ELSE 0)

\* docs = retriever.invoke(question); an exception of the retriever leaves
\* the function
Retrieve ==
    /\ r_pc = "retrieve"
    /\ \/ \E e \in Raisable :
             /\ r_result' = Raised(e)
             /\ r_pc' = "done"
             /\ UNCHANGED r_docs
       \/ \E docs \in DocLists :
             /\ r_docs' = docs
             /\ r_pc' = "format"
             /\ UNCHANGED r_result
    /\ UNCHANGED <<r_max, r_context, scoreVars, parseVars, judgeVars, stdout>>

\* context = "\n\n".join(...); context = context[:max_context_chars];
\* prompt_text = qa_prompt.format(context=context, question=question)
FormatPrompt ==
    /\ r_pc = "format"
    /\ r_context' = Str(PySliceTo(Join(r_docs), r_max))
    /\ \E o \in Outcomes :
          IF o = "None"
          THEN r_pc' = "invoke" /\ UNCHANGED r_result
          ELSE r_pc' = "done" /\ r_result' = Raised(o)
    /\ UNCHANGED <<r_max, r_docs, scoreVars, parseVars, judgeVars, stdout>>

\* resp = llm.invoke(prompt_text); return resp, docs
InvokeLLM ==
    /\ r_pc = "invoke"
    /\ \/ \E e \in Raisable : r_result' = Raised(e)
       \/ \E resp \in Answers : r_result' = Returned(<<resp, r_docs>>)
    /\ r_pc' = "done"
    /\ UNCHANGED <<r_max, r_docs, r_context, scoreVars, parseVars, judgeVars, stdout>>

RagInit ==
    /\ r_pc = "retrieve"
    /\ r_max \in MaxContextChoices
    /\ r_docs = <<>>
    /\ r_context = PyNone
    /\ r_result = Pending
    /\ stdout = <<>>
    /\ ScoresIdle /\ ParseIdle /\ JudgeIdle

RagNext == Retrieve \/ FormatPrompt \/ InvokeLLM

\* one call of ask_rag, with any retrieval result and any max_context_chars
SpecRag == RagInit /\ [][RagNext]_vars

-----------------------------------------------------------------------------
(* Properties of ask_rag *)

RECURSIVE JoinedTexts(_)
\* the documents' texts in retrieval order, a double newline between
\* neighbours
JoinedTexts(docs) ==
    IF docs = <<>> THEN <<>>
    ELSE IF Len(docs) = 1 THEN Head(docs).page_content.chars
    ELSE Head(docs).page_content.chars \o <<"\n", "\n">> \o JoinedTexts(Tail(docs))

IsPrefix(a, b) == Len(a) <= Len(b) /\ SubSeq(b, 1, Len(a)) = a

=============================================================================
